---- MODULE Spec2Model ----
(***************************************************************************)
(* TypingSession of typetester (src/src/main.rs): the keystroke state      *)
(* machine (handle_key, handle_backspace, handle_error), the per-key       *)
(* statistics (update_key_stats, detect_hesitation_type) and the derived   *)
(* queries (is_complete, calculate_accuracy).                              *)
(*                                                                         *)
(* A char is a one-character string, a String is a sequence of chars, an   *)
(* Option is a sequence of length 0 (None) or 1 (Some), an Instant or a    *)
(* Duration is a number of milliseconds.                                   *)
(***************************************************************************)
EXTENDS Integers, Sequences, FiniteSets, TLC

VARIABLES
    session,      \* the TypingSession object (a record of its fields)
    clock,        \* the monotonic clock read by Instant::now()
    keys,         \* history: the keys passed to handle_key so far, in order
    branch,       \* history: the branch of handle_key the last call took
    wrong_run,    \* history: wrong characters typed in a row since the last state without pending error
    run_base,     \* history: length of the error log when that run began
    reports,      \* the SessionReports generate_report has returned, in order
    app,          \* the App around the session: state, should_quit, report_view
    event         \* history: the last key event App.handle_event was given

vars == <<session, clock, keys, branch, wrong_run, run_base, reports, app, event>>

\* ---------------------------------------------------------------- bounds
MaxCalls == 5           \* handle_key calls per behaviour of Spec
MaxFreezeCalls == 11    \* handle_key calls per behaviour of SpecFreeze
MaxReportCalls == 6     \* handle_key calls per behaviour of SpecReport
MaxReports == 2         \* generate_report calls in a row in SpecReport
MaxWpmCalls == 12       \* handle_key calls per behaviour of SpecWpm
MaxHesitationCalls == 4 \* handle_key calls per behaviour of SpecHesitation
MaxRhythmCalls == 7     \* handle_key calls per behaviour of SpecRhythm
MaxAppCalls == 4        \* handle_key calls per behaviour of SpecApp
MaxSlow == 1            \* hesitations per behaviour of SpecTopN

\* ------------------------------------------------------- program constants
FreezeThreshold == 10       \* consecutive errors that freeze the session
HesitationMs == 500         \* latency above which a hesitation is recorded
LongPauseMs == 1000         \* latency above which a hesitation is a LongPause
WpmSampleEvery == 10        \* a WPM sample every 10th position
WindowLen == 3              \* characters kept before/after a hesitation
MinObservations == 2        \* a digraph or transition counts from 2 observations
TopN == 10                  \* digraph and transition lists are truncated to 10
ClusterGap == 10            \* errors within 10 positions share a cluster
RhythmWindow == 5           \* latencies averaged before a rhythm break
RhythmBreakMs == 400        \* a rhythm break is above 400 ms
SlowTransitionMs == 300     \* a problematic transition averages above 300 ms

Backspace == "\\x08"        \* the backspace sentinel '\x08'

None == <<>>
Some(x) == <<x>>

\* ------------------------------------------------------------ char, String
\* char::len_utf8 over the characters the model types
Utf8Len(c) == IF c = "é" THEN 2 ELSE 1

\* String::len: the length in BYTES
RECURSIVE StrLen(_)
StrLen(str) == IF str = <<>> THEN 0 ELSE Utf8Len(Head(str)) + StrLen(Tail(str))

\* mutant: an index past the end is clamped to the last char
chars_nth_clamped(str, n) ==
    IF str = <<>> THEN None
    ELSE IF n < Len(str) THEN Some(str[n + 1]) ELSE Some(str[Len(str)])

\* str.chars().nth(n)
chars_nth(str, n) == IF n >= 0 /\ n < Len(str) THEN Some(str[n + 1]) ELSE None

\* str.chars().skip(n).take(m).collect()
skip_take(str, n, m) ==
    LET lo == n + 1
        hi == IF n + m < Len(str) THEN n + m ELSE Len(str)
    IN  IF lo > hi THEN <<>> ELSE SubSeq(str, lo, hi)

\* String::pop: the string without its last char (unchanged when empty)
pop(str) == IF str = <<>> THEN <<>> ELSE SubSeq(str, 1, Len(str) - 1)

\* char::is_ascii_punctuation (the grave accent, which the model never types, is left out)
AsciiPunctuation ==
    {"!", "\"", "#", "$", "%", "&", "'", "(", ")", "*", "+", ",", "-", ".", "/",
     ":", ";", "<", "=", ">", "?", "@", "[", "\\", "]", "^", "_", "{", "|", "}", "~"}

AsciiDigit == {"0", "1", "2", "3", "4", "5", "6", "7", "8", "9"}

SymbolSet ==
    {"!", "@", "#", "$", "%", "^", "&", "*", "(", ")", "_", "+", "{", "}", "|", ":", "<", ">", "?"}

Uppercase ==
    {"A", "B", "C", "D", "E", "F", "G", "H", "I", "J", "K", "L", "M",
     "N", "O", "P", "Q", "R", "S", "T", "U", "V", "W", "X", "Y", "Z", "É"}

is_ascii_punctuation(c) == c \in AsciiPunctuation
is_ascii_digit(c) == c \in AsciiDigit
is_uppercase(c) == c \in Uppercase

CommonDigraphs ==
    {<<"t", "h">>, <<"e", "r">>, <<"o", "n">>, <<"a", "n">>, <<"r", "e">>,
     <<"h", "e">>, <<"i", "n">>, <<"e", "d">>, <<"n", "d">>, <<"h", "a">>}

\* ------------------------------------------------------------ TypingSession
new(text, now) ==
    [ target_text         |-> text,
      user_input          |-> <<>>,
      current_position    |-> 0,
      errors              |-> <<>>,
      key_stats           |-> [c \in {} |-> 0],
      session_start       |-> now,
      session_end         |-> None,
      last_keystroke      |-> None,
      has_error           |-> FALSE,
      consecutive_errors  |-> 0,
      is_frozen           |-> FALSE,
      total_corrections   |-> 0,
      typing_rhythm       |-> <<>>,
      hesitation_patterns |-> <<>>,
      wpm_samples         |-> <<>> ]

is_complete(s) ==
    s.current_position >= StrLen(s.target_text) /\ ~s.has_error

\* calculate_wpm: (current_position / 5) / minutes, kept as an exact fraction
calculate_wpm(s, now) ==
    LET elapsed == now - s.session_start
    IN  IF elapsed = 0 THEN <<0, 1>> ELSE <<s.current_position * 12000, elapsed>>

\* calculate_accuracy: current_position / user_input.len() * 100, as a fraction
calculate_accuracy(s) ==
    IF s.user_input = <<>> THEN <<100, 1>>
    ELSE <<s.current_position * 100, StrLen(s.user_input)>>

\* mutant: the punctuation test comes before the long-pause test
detect_hesitation_type_punctuation_first(key, latency_ms, preceding) ==
    LET last == chars_nth(preceding, Len(preceding) - 1)
        last_upper == IF last = None THEN FALSE ELSE is_uppercase(last[1])
    IN  IF is_ascii_punctuation(key) THEN "Punctuation"
        ELSE IF latency_ms > LongPauseMs THEN "LongPause"
        ELSE IF is_ascii_digit(key) \/ key \in SymbolSet THEN "NumberSymbol"
        ELSE IF is_uppercase(key) # last_upper THEN "CaseChange"
        ELSE IF last # None /\ <<last[1], key>> \in CommonDigraphs THEN "DoubleDigraph"
        ELSE "Transition"

\* mutant: the case is compared with the first character of the window
detect_hesitation_type_three_back(key, latency_ms, preceding) ==
    LET last == chars_nth(preceding, Len(preceding) - 1)
        first == chars_nth(preceding, 0)
        first_upper == IF first = None THEN FALSE ELSE is_uppercase(first[1])
    IN  IF latency_ms > LongPauseMs THEN "LongPause"
        ELSE IF is_ascii_punctuation(key) THEN "Punctuation"
        ELSE IF is_ascii_digit(key) \/ key \in SymbolSet THEN "NumberSymbol"
        ELSE IF is_uppercase(key) # first_upper THEN "CaseChange"
        ELSE IF last # None /\ <<last[1], key>> \in CommonDigraphs THEN "DoubleDigraph"
        ELSE "Transition"

detect_hesitation_type(key, latency_ms, preceding) ==
    LET last == chars_nth(preceding, Len(preceding) - 1)
        last_upper == IF last = None THEN FALSE ELSE is_uppercase(last[1])
    IN  IF latency_ms > LongPauseMs THEN "LongPause"
        ELSE IF is_ascii_punctuation(key) THEN "Punctuation"
        ELSE IF is_ascii_digit(key) \/ key \in SymbolSet THEN "NumberSymbol"
        ELSE IF is_uppercase(key) # last_upper THEN "CaseChange"
        ELSE IF last # None /\ <<last[1], key>> \in CommonDigraphs THEN "DoubleDigraph"
        ELSE "Transition"

update_key_stats(s, key, latency, now) ==
    LET old == IF key \in DOMAIN s.key_stats THEN s.key_stats[key]
               ELSE [ key |-> key, count |-> 0, total_latency |-> 0,
                      error_count |-> 0, latencies |-> <<>>, positions |-> <<>> ]
        stat == [ old EXCEPT
                    !.count = @ + 1,
                    !.total_latency = @ + latency,
                    !.latencies = Append(@, latency),
                    !.positions = Append(@, s.current_position),
                    !.error_count = IF s.has_error THEN @ + 1 ELSE @ ]
        rhythm == [ timestamp |-> now - s.session_start,
                    latency |-> latency,
                    position |-> s.current_position,
                    char_typed |-> key ]
        preceding == IF s.current_position >= WindowLen
                     THEN skip_take(s.target_text, s.current_position - WindowLen, WindowLen)
                     ELSE <<>>
        following == skip_take(s.target_text, s.current_position + 1, WindowLen)
        pattern == [ position |-> s.current_position,
                     duration |-> latency,
                     preceding_chars |-> preceding,
                     following_chars |-> following,
                     pattern_type |-> detect_hesitation_type(key, latency, preceding) ]
    IN  [ s EXCEPT
            !.key_stats = [c \in (DOMAIN s.key_stats) \cup {key} |->
                              IF c = key THEN stat ELSE s.key_stats[c]],
            !.typing_rhythm = Append(@, rhythm),
            !.hesitation_patterns = IF latency > HesitationMs THEN Append(@, pattern) ELSE @,
            !.wpm_samples =
                IF s.current_position % WpmSampleEvery = 0 /\ s.current_position > 0
                THEN Append(@, <<now, calculate_wpm(s, now)>>) ELSE @ ]

\* mutant: the kind test inverted
error_event_inverted(s, actual, expected, timestamp) ==
    [ error_type |-> IF actual # expected THEN "Repeat" ELSE "Substitution",
      position |-> s.current_position,
      expected_char |-> Some(expected),
      actual_char |-> Some(actual),
      timestamp |-> timestamp - s.session_start,
      correction_timestamp |-> None,
      correction_latency |-> None ]

\* the ErrorEvent handle_error builds
error_event(s, actual, expected, timestamp) ==
    [ error_type |-> IF actual = expected THEN "Repeat" ELSE "Substitution",
      position |-> s.current_position,
      expected_char |-> Some(expected),
      actual_char |-> Some(actual),
      timestamp |-> timestamp - s.session_start,
      correction_timestamp |-> None,
      correction_latency |-> None ]

\* mutant: the freeze test written > instead of >=
handle_error_late_freeze(s, actual, expected, timestamp) ==
    [ s EXCEPT
        !.errors = Append(@, error_event(s, actual, expected, timestamp)),
        !.has_error = TRUE,
        !.consecutive_errors = @ + 1,
        !.is_frozen = IF s.consecutive_errors + 1 > FreezeThreshold THEN TRUE ELSE @ ]

\* mutant: expected and actual swapped in the recorded event
handle_error_swapped(s, actual, expected, timestamp) ==
    [ s EXCEPT
        !.errors = Append(@, error_event(s, expected, actual, timestamp)),
        !.has_error = TRUE,
        !.consecutive_errors = @ + 1,
        !.is_frozen = IF s.consecutive_errors + 1 >= FreezeThreshold THEN TRUE ELSE @ ]

handle_error(s, actual, expected, timestamp) ==
    [ s EXCEPT
        !.errors = Append(@, error_event(s, actual, expected, timestamp)),
        !.has_error = TRUE,
        !.consecutive_errors = @ + 1,
        !.is_frozen = IF s.consecutive_errors + 1 >= FreezeThreshold THEN TRUE ELSE @ ]

\* mutant: the error flag is not cleared when the last buffered error is removed
handle_backspace_keep_flag(s) ==
    IF s.user_input = <<>> THEN s
    ELSE IF s.has_error
    THEN [ s EXCEPT
             !.user_input = pop(@),
             !.consecutive_errors = IF @ > 0 THEN @ - 1 ELSE @,
             !.is_frozen = FALSE,
             !.total_corrections = @ + 1 ]
    ELSE IF s.current_position > 0
    THEN [ s EXCEPT !.user_input = pop(@), !.current_position = @ - 1 ]
    ELSE [ s EXCEPT !.user_input = pop(@) ]

\* mutant: the position is decremented without the current_position > 0 test
handle_backspace_unchecked(s) ==
    IF s.user_input = <<>> THEN s
    ELSE IF s.has_error
    THEN LET ce == IF s.consecutive_errors > 0 THEN s.consecutive_errors - 1
                   ELSE s.consecutive_errors
         IN  [ s EXCEPT
                 !.user_input = pop(@),
                 !.consecutive_errors = ce,
                 !.has_error = IF ce = 0 THEN FALSE ELSE @,
                 !.is_frozen = FALSE,
                 !.total_corrections = @ + 1 ]
    ELSE [ s EXCEPT !.user_input = pop(@), !.current_position = @ - 1 ]

handle_backspace(s) ==
    IF s.user_input = <<>> THEN s
    ELSE IF s.has_error
    THEN LET ce == IF s.consecutive_errors > 0 THEN s.consecutive_errors - 1
                   ELSE s.consecutive_errors
         IN  [ s EXCEPT
                 !.user_input = pop(@),
                 !.consecutive_errors = ce,
                 !.has_error = IF ce = 0 THEN FALSE ELSE @,
                 !.is_frozen = FALSE,
                 !.total_corrections = @ + 1 ]
    ELSE IF s.current_position > 0
    THEN [ s EXCEPT !.user_input = pop(@), !.current_position = @ - 1 ]
    ELSE [ s EXCEPT !.user_input = pop(@) ]

\* handle_key, the correct key with no pending error: advance
advance(s, now) ==
    [ s EXCEPT
        !.current_position = @ + 1,
        !.session_end = IF s.current_position + 1 >= StrLen(s.target_text)
                        THEN Some(now) ELSE @ ]

\* mutant: the error buffer is left in user_input
overtype_keep_buffer(s, now) ==
    LET pos == s.current_position + 1
    IN  [ s EXCEPT
            !.has_error = FALSE,
            !.consecutive_errors = 0,
            !.current_position = pos,
            !.session_end = IF pos >= StrLen(s.target_text) THEN Some(now) ELSE @ ]

\* handle_key, the correct key with an error pending: overtype correction
overtype(s, now) ==
    LET pos == s.current_position + 1
    IN  [ s EXCEPT
            !.has_error = FALSE,
            !.consecutive_errors = 0,
            !.current_position = pos,
            !.user_input = skip_take(s.target_text, 0, pos),
            !.session_end = IF pos >= StrLen(s.target_text) THEN Some(now) ELSE @ ]

\* mutant: a backspace returns without updating last_keystroke
handle_key_unfrozen_stale_clock(s, key, now) ==
    LET latency == IF s.last_keystroke # None THEN now - s.last_keystroke[1] ELSE 0
    IN  IF key = Backspace
        THEN handle_backspace(s)
        ELSE LET expected_char == chars_nth(s.target_text, s.current_position)
                 pushed == [ s EXCEPT !.user_input = Append(@, key) ]
                 t == update_key_stats(pushed, key, latency, now)
                 u == IF expected_char = None THEN t
                      ELSE IF key = expected_char[1]
                      THEN IF ~t.has_error THEN advance(t, now) ELSE overtype(t, now)
                      ELSE handle_error(t, key, expected_char[1], now)
             IN  [ u EXCEPT !.last_keystroke = Some(now) ]

\* mutant: the statistics are updated after the key has been compared
handle_key_unfrozen_stats_late(s, key, now) ==
    LET latency == IF s.last_keystroke # None THEN now - s.last_keystroke[1] ELSE 0
    IN  IF key = Backspace
        THEN [ handle_backspace(s) EXCEPT !.last_keystroke = Some(now) ]
        ELSE LET expected_char == chars_nth(s.target_text, s.current_position)
                 pushed == [ s EXCEPT !.user_input = Append(@, key) ]
                 u == IF expected_char = None THEN pushed
                      ELSE IF key = expected_char[1]
                      THEN IF ~pushed.has_error THEN advance(pushed, now)
                           ELSE overtype(pushed, now)
                      ELSE handle_error(pushed, key, expected_char[1], now)
                 t == update_key_stats(u, key, latency, now)
             IN  [ t EXCEPT !.last_keystroke = Some(now) ]

\* handle_key past the frozen check
handle_key_unfrozen(s, key, now) ==
    LET latency == IF s.last_keystroke # None THEN now - s.last_keystroke[1] ELSE 0
    IN  IF key = Backspace
        THEN [ handle_backspace(s) EXCEPT !.last_keystroke = Some(now) ]
        ELSE LET expected_char == chars_nth(s.target_text, s.current_position)
                 pushed == [ s EXCEPT !.user_input = Append(@, key) ]
                 t == update_key_stats(pushed, key, latency, now)
                 u == IF expected_char = None THEN t
                      ELSE IF key = expected_char[1]
                      THEN IF ~t.has_error THEN advance(t, now) ELSE overtype(t, now)
                      ELSE handle_error(t, key, expected_char[1], now)
             IN  [ u EXCEPT !.last_keystroke = Some(now) ]

\* mutant: no early return while frozen
handle_key_unguarded(s, key, now) == handle_key_unfrozen(s, key, now)

handle_key(s, key, now) ==
    IF s.is_frozen THEN s ELSE handle_key_unfrozen(s, key, now)

\* get_status: the status line, as its kind and the count it prints
get_status(s) ==
    IF s.is_frozen THEN [ kind |-> "Frozen", count |-> FreezeThreshold ]
    ELSE IF s.has_error THEN [ kind |-> "ErrorBuffer", count |-> s.consecutive_errors ]
    ELSE [ kind |-> "Ready", count |-> 0 ]

\* ------------------------------------------------------ generate_styled_text
Min(a, b) == IF a < b THEN a ELSE b

\* the three display loops: a newline ends the current line, a tab is shown as 4
\* spaces, any other character becomes one styled span
RECURSIVE lay_out(_, _, _)
lay_out(items, lines, current_line_spans) ==
    IF items = <<>> THEN [lines |-> lines, current_line_spans |-> current_line_spans]
    ELSE LET it == Head(items)
         IN  IF it.ch = "\n"
             THEN lay_out(Tail(items), Append(lines, current_line_spans), <<>>)
             ELSE lay_out(Tail(items), lines,
                          Append(current_line_spans,
                                 [ text |-> IF it.ch = "\t" THEN "    " ELSE it.ch,
                                   style |-> it.style ]))

\* the correctly typed characters, the last one as cursor unless in error or frozen
typed_items(s) ==
    [i \in 1..Min(s.current_position, Len(s.target_text)) |->
        [ ch |-> s.target_text[i],
          style |-> IF i = s.current_position /\ ~s.has_error /\ ~s.is_frozen
                    THEN "GreenCursor" ELSE "Green" ]]

\* chars_to_show: of the (at most 10) characters of user_input from current_position
\* on, those that differ from the target character at their own index
chars_to_show(s) ==
    IF s.has_error /\ Len(s.user_input) > s.current_position
    THEN LET error_start == s.current_position
             stop == Min(Len(s.user_input), error_start + 10)
             idx == [j \in 1..(stop - error_start) |-> error_start + j - 1]
             kept == SelectSeq(idx, LAMBDA i :
                         Some(s.user_input[i + 1]) # chars_nth(s.target_text, i))
         IN  [j \in 1..Len(kept) |-> <<kept[j], s.user_input[kept[j] + 1]>>]
    ELSE <<>>

\* the error buffer, the last shown character as cursor
error_items(s) ==
    LET shown == chars_to_show(s)
    IN  [idx \in 1..Len(shown) |->
            [ ch |-> shown[idx][2],
              style |-> IF idx = Len(shown) THEN "RedCursor" ELSE "Red" ]]

\* the remaining target text
remaining_items(s) ==
    LET start_pos == IF s.has_error
                     THEN Min(s.current_position + s.consecutive_errors, Len(s.target_text))
                     ELSE s.current_position
    IN  [j \in 1..(Len(s.target_text) - start_pos) |->
            [ ch |-> s.target_text[start_pos + j], style |-> "DarkGray" ]]

\* generate_styled_text: the lines, each a sequence of [text, style] spans
generate_styled_text(s) ==
    LET laid == lay_out(typed_items(s) \o error_items(s) \o remaining_items(s), <<>>, <<>>)
        last_line == IF s.current_position >= Len(s.target_text) /\ ~s.has_error
                     THEN Append(laid.current_line_spans, [text |-> "|", style |-> "GreenBold"])
                     ELSE laid.current_line_spans
    IN  IF last_line # <<>> THEN Append(laid.lines, last_line) ELSE laid.lines

\* --------------------------------------------------------- WeaknessAnalyzer
RECURSIVE SeqSum(_)
SeqSum(q) == IF q = <<>> THEN 0 ELSE Head(q) + SeqSum(Tail(q))

\* the latencies of a sequence of TypingRhythm entries
latencies_of(q) == [i \in 1..Len(q) |-> q[i].latency]

\* the digraph (previous target character, typed character) of a rhythm entry
digraph_of(s, r) ==
    IF r.position > 0 /\ chars_nth(s.target_text, r.position - 1) # None
    THEN Some(<<chars_nth(s.target_text, r.position - 1)[1], r.char_typed>>)
    ELSE None

\* digraph_latencies: digraph -> its latencies, in log order
digraph_latencies(s) ==
    LET with == SelectSeq(s.typing_rhythm, LAMBDA r : digraph_of(s, r) # None)
        found == {digraph_of(s, with[i])[1] : i \in 1..Len(with)}
    IN  [d \in found |->
            latencies_of(SelectSeq(with, LAMBDA r : digraph_of(s, r)[1] = d))]

\* transition_latencies: (previous typed char, typed char) -> latencies, in log order
transition_latencies(s) ==
    LET log == s.typing_rhythm
        later == [i \in 1..(Len(log) - 1) |-> i + 1]
        pair(i) == <<log[i - 1].char_typed, log[i].char_typed>>
        found == {pair(later[j]) : j \in 1..Len(later)}
    IN  [p \in found |->
            LET at == SelectSeq(later, LAMBDA i : pair(i) = p)
            IN  [j \in 1..Len(at) |-> log[at[j]].latency]]

\* the pairs observed at least twice, each with its average latency sum / n
averaged(m) ==
    {[pair |-> k, sum |-> SeqSum(m[k]), n |-> Len(m[k])] :
        k \in {k \in DOMAIN m : Len(m[k]) >= MinObservations}}

\* averaged pairs whose average latency is above SlowTransitionMs
slow_only(entries) == {e \in entries : e.sum > SlowTransitionMs * e.n}

\* the vectors collect() followed by the stable sort_by(descending average) can
\* give: a HashMap iterates in an unspecified order, so pairs of equal average
\* come out in any order
RECURSIVE sorted_orders(_)
sorted_orders(entries) ==
    IF entries = {} THEN { <<>> }
    ELSE LET top == {e \in entries : \A f \in entries : e.sum * f.n >= f.sum * e.n}
         IN  UNION { {<<e>> \o q : q \in sorted_orders(entries \ {e})} : e \in top }

\* mutant: the list is returned whole
truncate_none(q, n) == q

truncate(q, n) == IF Len(q) > n THEN SubSeq(q, 1, n) ELSE q

\* the error-cluster walk over the error log, from entry i on
RECURSIVE cluster_walk(_, _, _, _, _)
cluster_walk(errs, i, start, last, out) ==
    IF i > Len(errs)
    THEN IF start # None /\ last # None THEN Append(out, <<start[1], last[1]>>) ELSE out
    ELSE LET pos == errs[i].position
         IN  IF last = None
             THEN cluster_walk(errs, i + 1, Some(pos), Some(pos), out)
             ELSE IF pos <= last[1] + ClusterGap
             THEN cluster_walk(errs, i + 1, start, Some(pos), out)
             ELSE cluster_walk(errs, i + 1, Some(pos), Some(pos),
                               IF start # None THEN Append(out, <<start[1], last[1]>>)
                               ELSE out)

error_clusters(s) == cluster_walk(s.errors, 1, None, None, <<>>)

\* create_finger_map, with "Unknown" for the characters outside it
finger_of(c) ==
    IF c \in {"q", "a", "z"} THEN "L-Pinky"
    ELSE IF c \in {"w", "s", "x"} THEN "L-Ring"
    ELSE IF c \in {"e", "d", "c"} THEN "L-Middle"
    ELSE IF c \in {"r", "t", "f", "g", "v", "b"} THEN "L-Index"
    ELSE IF c \in {"y", "u", "h", "j", "n", "m"} THEN "R-Index"
    ELSE IF c \in {"i", "k"} THEN "R-Middle"
    ELSE IF c \in {"o", "l"} THEN "R-Ring"
    ELSE IF c = "p" THEN "R-Pinky"
    ELSE IF c = " " THEN "Thumb"
    ELSE "Unknown"

\* mutant: errors between characters of the same finger are counted too
finger_errors_same_finger(s) ==
    LET pattern(e) == <<finger_of(e.expected_char[1]), finger_of(e.actual_char[1])>>
        all == 1..Len(s.errors)
    IN  [p \in {pattern(s.errors[i]) : i \in all} |->
            Cardinality({i \in all : pattern(s.errors[i]) = p})]

\* finger_errors: <<expected finger, actual finger>> -> count
finger_errors(s) ==
    LET pattern(e) == <<finger_of(e.expected_char[1]), finger_of(e.actual_char[1])>>
        differ == {i \in 1..Len(s.errors) : pattern(s.errors[i])[1] # pattern(s.errors[i])[2]}
    IN  [p \in {pattern(s.errors[i]) : i \in differ} |->
            Cardinality({i \in differ : pattern(s.errors[i]) = p})]

\* rhythm_breaks: positions of the keystrokes whose latency breaks the rhythm
rhythm_breaks(s) ==
    LET log == s.typing_rhythm
        moving_avg(i) == SeqSum(latencies_of(SubSeq(log, i - RhythmWindow, i - 1))) \div RhythmWindow
        idx == [i \in 1..(Len(log) - RhythmWindow) |-> i + RhythmWindow]
        breaks == SelectSeq(idx, LAMBDA i :
                      log[i].latency > moving_avg(i) * 2 /\ log[i].latency > RhythmBreakMs)
    IN  [j \in 1..Len(breaks) |-> log[breaks[j]].position]

\* analyze_weaknesses; digraph_order and transition_order are the vectors the two
\* HashMaps were collected and sorted into
analyze_weaknesses(s, digraph_order, transition_order) ==
    [ slowest_digraphs |-> truncate(digraph_order, TopN),
      error_clusters |-> error_clusters(s),
      finger_errors |-> finger_errors(s),
      rhythm_breaks |-> rhythm_breaks(s),
      problematic_transitions |-> truncate(transition_order, TopN) ]

\* ---------------------------------------------------------- ReportGenerator
calculate_wpm_with_duration(s, duration) ==
    IF duration = 0 THEN <<0, 1>> ELSE <<s.current_position * 12000, duration>>

\* summed total latency / summed count: the Duration quotient, exact to the nanosecond,
\* as whole milliseconds and the nanoseconds beyond them
average_latency(s) ==
    LET ks == s.key_stats
        RECURSIVE total(_, _)
        total(f, cs) == IF cs = {} THEN 0
                        ELSE LET c == CHOOSE c \in cs : TRUE
                             IN  ks[c][f] + total(f, cs \ {c})
        total_keys == total("count", DOMAIN ks)
        total_latency == total("total_latency", DOMAIN ks)
    IN  IF total_keys > 0
        THEN [ millis |-> total_latency \div total_keys,
               nanos |-> ((total_latency % total_keys) * 1000000) \div total_keys ]
        ELSE [ millis |-> 0, nanos |-> 0 ]

generate_report(s, now, digraph_order, transition_order) ==
    LET session_duration == IF s.session_end # None
                            THEN s.session_end[1] - s.session_start
                            ELSE now - s.session_start
    IN  [ session_duration |-> session_duration,
          total_characters |-> StrLen(s.user_input),
          correct_characters |-> s.current_position,
          wpm |-> calculate_wpm_with_duration(s, session_duration),
          accuracy |-> calculate_accuracy(s),
          average_latency |-> average_latency(s),
          errors |-> s.errors,
          key_stats |-> s.key_stats,
          total_corrections |-> s.total_corrections,
          average_correction_latency |-> None,
          typing_rhythm |-> s.typing_rhythm,
          hesitation_patterns |-> s.hesitation_patterns,
          weakness_analysis |-> analyze_weaknesses(s, digraph_order, transition_order),
          wpm_over_time |-> [i \in 1..Len(s.wpm_samples) |->
                                <<s.wpm_samples[i][1] - s.session_start, s.wpm_samples[i][2]>>] ]

\* ------------------------------------------------------------------ actions
\* history: the branch of handle_key that a call with `key` takes in state s
Branch(s, key) ==
    LET expected_char == chars_nth(s.target_text, s.current_position)
    IN  IF s.is_frozen THEN "frozen"
        ELSE IF key = Backspace THEN "backspace"
        ELSE IF expected_char = None THEN "past_end"
        ELSE IF key # expected_char[1] THEN "error"
        ELSE IF s.has_error THEN "overtype" ELSE "advance"

\* history: the wrong characters typed in a row, counted from a state without
\* pending error and ended by any other key or by the freeze
NextWrongRun(s, key) ==
    IF Branch(s, key) = "error" /\ (~s.has_error \/ wrong_run > 0)
    THEN <<wrong_run + 1, IF s.has_error THEN run_base ELSE Len(s.errors)>>
    ELSE <<0, 0>>

\* one call of handle_key(key), dt milliseconds after the previous one
Handle(key, dt, max) ==
    /\ Len(keys) < max
    /\ reports = <<>>
    /\ clock' = clock + dt
    /\ session' = handle_key(session, key, clock + dt)
    /\ keys' = Append(keys, key)
    /\ branch' = Branch(session, key)
    /\ wrong_run' = NextWrongRun(session, key)[1]
    /\ run_base' = NextWrongRun(session, key)[2]
    /\ reports' = reports

\* handle_key(key) called on the session directly, the App left as it is
Call(key, dt, max) == Handle(key, dt, max) /\ UNCHANGED <<app, event>>

Targets == { <<>>, <<"a", "b">>, <<"é", "a">> }
Chars == {"a", "b", "é"}
Latencies == {100, 600}

FreezeTargets == { <<"a", "b">> }
FreezeChars == {"a", "x"}
FreezeLatencies == {100}

InitOver(texts) ==
    /\ clock = 0
    /\ \E text \in texts : session = new(text, 0)
    /\ keys = <<>>
    /\ branch = "new"
    /\ wrong_run = 0
    /\ run_base = 0
    /\ reports = <<>>
    /\ app = [state |-> "Typing", should_quit |-> FALSE, report_view |-> "Charts"]
    /\ event = "none"

TypeChar == \E c \in Chars, dt \in Latencies : Call(c, dt, MaxCalls)
TypeBackspace == \E dt \in Latencies : Call(Backspace, dt, MaxCalls)

Init == InitOver(Targets)
Next == TypeChar \/ TypeBackspace
Spec == Init /\ [][Next]_vars

FreezeTypeChar == \E c \in FreezeChars, dt \in FreezeLatencies : Call(c, dt, MaxFreezeCalls)
FreezeTypeBackspace == \E dt \in FreezeLatencies : Call(Backspace, dt, MaxFreezeCalls)

InitFreeze == InitOver(FreezeTargets)
NextFreeze == FreezeTypeChar \/ FreezeTypeBackspace
SpecFreeze == InitFreeze /\ [][NextFreeze]_vars

\* one call of generate_report(), dt milliseconds after the previous call; it
\* borrows the session read-only, and the reports are taken at the end of a
\* behaviour: no key is handled once a report exists
Report(dt) ==
    /\ Len(reports) < MaxReports
    /\ clock' = clock + dt
    /\ \E d \in sorted_orders(averaged(digraph_latencies(session))),
          p \in sorted_orders(slow_only(averaged(transition_latencies(session)))) :
          reports' = Append(reports, generate_report(session, clock + dt, d, p))
    /\ UNCHANGED <<session, keys, branch, wrong_run, run_base>>

\* generate_report() called on the session directly
GenerateReport(dt) == Report(dt) /\ UNCHANGED <<app, event>>

ReportTargets == { <<"a", "b">> }
ReportChars == {"a", "b", "x"}
ReportLatencies == {400}

ReportTypeChar == \E c \in ReportChars, dt \in ReportLatencies : Call(c, dt, MaxReportCalls)
ReportTypeBackspace == \E dt \in ReportLatencies : Call(Backspace, dt, MaxReportCalls)
ReportGenerate == \E dt \in ReportLatencies : GenerateReport(dt)

InitReport == InitOver(ReportTargets)
NextReport == ReportTypeChar \/ ReportTypeBackspace \/ ReportGenerate
SpecReport == InitReport /\ [][NextReport]_vars

\* a typist who types "ab" and then, past its end, eleven characters three times
\* each; every key comes KeyDelay after the previous one, or half a second later
TopNTargets == { <<"a", "b">> }
TopNLetters == <<"c", "d", "e", "f", "g", "h", "i", "j", "k", "l", "m">>
TopNScript ==
    <<"a", "b">> \o [i \in 1..(3 * Len(TopNLetters)) |-> TopNLetters[((i - 1) \div 3) + 1]]
KeyDelay(c) ==
    IF \E i \in 1..Len(TopNLetters) : TopNLetters[i] = c
    THEN 290 + 10 * (CHOOSE i \in 1..Len(TopNLetters) : TopNLetters[i] = c)
    ELSE 350
Hesitation(c) == KeyDelay(c) + 500
TopNReportDelays == {400}

\* the hesitations so far: the logged keystrokes that came later than KeyDelay
slow_keys ==
    Cardinality({i \in 1..Len(session.typing_rhythm) :
                    session.typing_rhythm[i].latency
                        > KeyDelay(session.typing_rhythm[i].char_typed)})

TopNType ==
    /\ Len(keys) < Len(TopNScript)
    /\ LET c == TopNScript[Len(keys) + 1]
       IN  \/ Call(c, KeyDelay(c), Len(TopNScript))
           \/ slow_keys < MaxSlow /\ Call(c, Hesitation(c), Len(TopNScript))
TopNGenerate == \E dt \in TopNReportDelays : GenerateReport(dt)

InitTopN == InitOver(TopNTargets)
NextTopN == TopNType \/ TopNGenerate
SpecTopN == InitTopN /\ [][NextTopN]_vars

\* a target of 11 characters, so that positions 9, 10 and 11 are reached
WpmTargets == { <<"a", "a", "a", "a", "a", "a", "a", "a", "a", "a", "b">> }
WpmChars == {"a"}
WpmLatencies == {100}

WpmTypeChar == \E c \in WpmChars, dt \in WpmLatencies : Call(c, dt, MaxWpmCalls)
WpmTypeBackspace == \E dt \in WpmLatencies : Call(Backspace, dt, MaxWpmCalls)

InitWpm == InitOver(WpmTargets)
NextWpm == WpmTypeChar \/ WpmTypeBackspace
SpecWpm == InitWpm /\ [][NextWpm]_vars

\* a mixed-case target whose characters 2-3 and 3-4 are common digraphs, typed
\* with latencies at and above the hesitation and long-pause thresholds
HesitationTargets == { <<"E", "e", "r", "e">> }
HesitationChars == {"E", "e", "r", "."}
HesitationLatencies == {500, 600, 1100}

HesitationTypeChar ==
    \E c \in HesitationChars, dt \in HesitationLatencies : Call(c, dt, MaxHesitationCalls)
HesitationTypeBackspace ==
    \E dt \in HesitationLatencies : Call(Backspace, dt, MaxHesitationCalls)

InitHesitation == InitOver(HesitationTargets)
NextHesitation == HesitationTypeChar \/ HesitationTypeBackspace
SpecHesitation == InitHesitation /\ [][NextHesitation]_vars

\* eight equal characters typed with latencies around 200 ms and one of 401 ms,
\* so that the sum of 5 latencies is not always a multiple of 5
RhythmTargets == { <<"a", "a", "a", "a", "a", "a", "a", "a">> }
RhythmChars == {"a"}
RhythmLatencies == {200, 201, 401}
RhythmBackspaceLatencies == {200}

RhythmTypeChar == \E c \in RhythmChars, dt \in RhythmLatencies : Call(c, dt, MaxRhythmCalls)
RhythmTypeBackspace == \E dt \in RhythmBackspaceLatencies : Call(Backspace, dt, MaxRhythmCalls)

InitRhythm == InitOver(RhythmTargets)
NextRhythm == RhythmTypeChar \/ RhythmTypeBackspace
SpecRhythm == InitRhythm /\ [][NextRhythm]_vars

\* ---------------------------------------------------------------------- App
\* one handle_key call of the Tab loop, with the histories Handle keeps
tab_step(h, now) ==
    LET wrong == Branch(h.session, " ") = "error"
                 /\ (~h.session.has_error \/ h.wrong_run > 0)
    IN  [ session |-> handle_key(h.session, " ", now),
          keys |-> Append(h.keys, " "),
          branch |-> Branch(h.session, " "),
          wrong_run |-> IF wrong THEN h.wrong_run + 1 ELSE 0,
          run_base |-> IF ~wrong THEN 0
                       ELSE IF h.session.has_error THEN h.run_base
                       ELSE Len(h.session.errors) ]

\* KeyCode::Tab: up to n spaces, stopping as soon as the session is complete
RECURSIVE tab_loop(_, _, _)
tab_loop(h, n, now) ==
    IF n = 0 THEN h
    ELSE LET h1 == tab_step(h, now)
         IN  IF is_complete(h1.session) THEN h1 ELSE tab_loop(h1, n - 1, now)

\* the state the App is in after a typing event left the session as s
after_key(s) ==
    [ app EXCEPT !.state = IF is_complete(s) THEN "ShowingReport" ELSE @ ]

AppTargets == { <<>>, <<"\t", "a">>, <<"a", "\n">>, <<"é">> }
AppChars == {"a", " ", "é"}
AppLatencies == {100}

Typing == app.state = "Typing" /\ ~app.should_quit
ShowingReport == app.state = "ShowingReport" /\ ~app.should_quit

\* KeyCode::Char(c)
AppChar ==
    \E c \in AppChars, dt \in AppLatencies :
        /\ Typing
        /\ Handle(c, dt, MaxAppCalls)
        /\ app' = after_key(session')
        /\ event' = "Char"

\* KeyCode::Enter
AppEnter ==
    \E dt \in AppLatencies :
        /\ Typing
        /\ Handle("\n", dt, MaxAppCalls)
        /\ app' = after_key(session')
        /\ event' = "Enter"

\* KeyCode::Tab: 4 spaces handled one after the other within the same millisecond
AppTab ==
    \E dt \in AppLatencies :
        /\ Typing
        /\ Len(keys) < MaxAppCalls
        /\ reports = <<>>
        /\ LET h == tab_loop([ session |-> session, keys |-> keys, branch |-> branch,
                               wrong_run |-> wrong_run, run_base |-> run_base ],
                             4, clock + dt)
           IN  /\ session' = h.session
               /\ keys' = h.keys
               /\ branch' = h.branch
               /\ wrong_run' = h.wrong_run
               /\ run_base' = h.run_base
               /\ app' = after_key(h.session)
        /\ clock' = clock + dt
        /\ reports' = reports
        /\ event' = "Tab"

\* KeyCode::Backspace
AppBackspace ==
    \E dt \in AppLatencies :
        /\ Typing
        /\ Handle(Backspace, dt, MaxAppCalls)
        /\ app' = app
        /\ event' = "Backspace"

\* Ctrl-q while typing; q, Q or Esc on the report
AppQuit ==
    /\ Typing \/ ShowingReport
    /\ app' = [app EXCEPT !.should_quit = TRUE]
    /\ event' = "Quit"
    /\ UNCHANGED <<session, clock, keys, branch, wrong_run, run_base, reports>>

\* 'e' on the report: export_report
AppExport ==
    \E dt \in AppLatencies :
        /\ ShowingReport
        /\ Report(dt)
        /\ app' = app
        /\ event' = "Export"

\* 'r' on the report: start_typing_session on the same text
AppRestart ==
    \E dt \in AppLatencies :
        /\ ShowingReport
        /\ clock' = clock + dt
        /\ session' = new(session.target_text, clock + dt)
        /\ app' = [app EXCEPT !.state = "Typing"]
        /\ branch' = "new"
        /\ wrong_run' = 0
        /\ run_base' = 0
        /\ event' = "Restart"
        /\ UNCHANGED <<keys, reports>>

\* Left, Right, 'h' or 'l' on the report
AppToggleView ==
    /\ ShowingReport
    /\ app' = [app EXCEPT !.report_view = IF @ = "Charts" THEN "Analysis" ELSE "Charts"]
    /\ event' = "ToggleView"
    /\ UNCHANGED <<session, clock, keys, branch, wrong_run, run_base, reports>>

InitApp == InitOver(AppTargets)
NextApp ==
    \/ AppChar \/ AppEnter \/ AppTab \/ AppBackspace
    \/ AppQuit \/ AppExport \/ AppRestart \/ AppToggleView
SpecApp == InitApp /\ [][NextApp]_vars

\* ------------------------------------------------------------------- claims
last_key == keys[Len(keys)]
nchars == Len(session.target_text)
char_keys == Cardinality({i \in 1..Len(keys) : keys[i] # Backspace})

\* C1: from Frozen (is_frozen, consecutive_errors = 10) one handle_key(backspace)
\* unfreezes: afterwards is_frozen is false, has_error is still true and
\* consecutive_errors = 9.
C1_BackspaceUnfreezes ==
    [][ (session.is_frozen /\ session.consecutive_errors = FreezeThreshold
         /\ keys' = Append(keys, Backspace))
        => (~session'.is_frozen /\ session'.has_error
            /\ session'.consecutive_errors = FreezeThreshold - 1) ]_vars

\* C2: while is_frozen, a handle_key call with a non-backspace key changes none of
\* current_position, user_input, has_error, consecutive_errors, is_frozen,
\* total_corrections, the error log, key_stats, the rhythm log, the hesitation
\* log and the WPM samples.
C2_FrozenCharIsNoOp ==
    [][ (session.is_frozen /\ \E c \in FreezeChars : keys' = Append(keys, c))
        => /\ session'.current_position = session.current_position
           /\ session'.user_input = session.user_input
           /\ session'.has_error = session.has_error
           /\ session'.consecutive_errors = session.consecutive_errors
           /\ session'.is_frozen = session.is_frozen
           /\ session'.total_corrections = session.total_corrections
           /\ session'.errors = session.errors
           /\ session'.key_stats = session.key_stats
           /\ session'.typing_rhythm = session.typing_rhythm
           /\ session'.hesitation_patterns = session.hesitation_patterns
           /\ session'.wpm_samples = session.wpm_samples ]_vars

\* C2 witness: a character key was delivered to a frozen session
C2_Witness ==
    /\ branch = "frozen"
    /\ last_key # Backspace
    /\ session.is_frozen
    /\ Len(session.typing_rhythm) < char_keys

\* C3: k wrong characters typed in a row from a state without pending error leave
\* consecutive_errors = k and is_frozen false for k < 10; the 10th sets is_frozen,
\* and the run has recorded exactly k ErrorEvents.
C3_TenthErrorFreezes ==
    wrong_run > 0 =>
        /\ wrong_run <= FreezeThreshold
        /\ session.consecutive_errors = wrong_run
        /\ session.is_frozen <=> (wrong_run = FreezeThreshold)
        /\ Len(session.errors) - run_base = wrong_run

\* C3 witness: the 10th wrong character of a run has frozen the session
C3_Witness ==
    /\ wrong_run = FreezeThreshold
    /\ session.is_frozen
    /\ Len(session.errors) = run_base + FreezeThreshold

\* C4: typing the expected character while has_error (not frozen) clears has_error,
\* resets consecutive_errors, advances current_position by 1 and leaves user_input
\* equal to the first current_position characters of the target.
C4_OvertypeCorrection ==
    [][ (~session.is_frozen /\ session.has_error
         /\ session.current_position < nchars
         /\ keys' = Append(keys, session.target_text[session.current_position + 1]))
        => /\ ~session'.has_error
           /\ session'.consecutive_errors = 0
           /\ session'.current_position = session.current_position + 1
           /\ session'.user_input =
                  SubSeq(session.target_text, 1, session.current_position + 1) ]_vars

\* C4 witness: an overtype correction that discarded two buffered characters
C4_Witness ==
    /\ branch = "overtype"
    /\ Len(keys) = 3
    /\ Len(session.errors) = 2
    /\ session.current_position = 1

\* C5: after feeding exactly the first n characters of the target,
\* current_position = n, has_error is false, the error log is empty, and
\* is_complete() holds exactly when current_position equals the target length.
C5_CorrectKeystrokes ==
    (Len(keys) <= nchars /\ keys = SubSeq(session.target_text, 1, Len(keys)))
        => /\ session.current_position = Len(keys)
           /\ ~session.has_error
           /\ session.errors = <<>>
           /\ is_complete(session) <=> (session.current_position = nchars)

\* C6: consecutive_errors = 0 if and only if has_error is false.
C6_ErrorCountIffFlag ==
    (session.consecutive_errors = 0) <=> ~session.has_error

\* C6 witness: a backspace removed the last buffered error
C6_Witness ==
    /\ branch = "backspace"
    /\ session.total_corrections > 0
    /\ session.consecutive_errors = 0
    /\ ~session.has_error

\* C7: is_frozen implies has_error.
C7_FrozenImpliesError ==
    session.is_frozen => session.has_error

\* C7 witness: a frozen session that has been sent a further key
C7_Witness ==
    /\ session.is_frozen
    /\ branch = "frozen"

\* C8: current_position is between 0 and the number of characters of the target.
C8_PositionInRange ==
    /\ session.current_position >= 0
    /\ session.current_position <= nchars

\* C8 witness: a backspace popped a character at position 0 with no error pending
C8_Witness ==
    /\ branch = "backspace"
    /\ Len(keys) >= 2
    /\ keys[Len(keys) - 1] # Backspace
    /\ nchars = 0
    /\ session.current_position = 0

\* C9: once is_complete() is true it remains true after any further handle_key call.
C9_CompleteIsTerminal ==
    [][ is_complete(session) => is_complete(session') ]_vars

\* C10: a non-backspace key that differs from the expected character (not frozen,
\* position before the end) appends exactly one ErrorEvent (Substitution, position
\* = current_position, expected, actual), sets has_error, increments
\* consecutive_errors by 1 and leaves current_position unchanged; a key equal to
\* the expected character appends no ErrorEvent.
C10_WrongKeyRecordsOneError ==
    [][ \A c \in Chars :
          (~session.is_frozen /\ session.current_position < nchars
           /\ keys' = Append(keys, c))
          => LET expected == session.target_text[session.current_position + 1]
                 n == Len(session.errors)
             IN  IF c = expected
                 THEN session'.errors = session.errors
                 ELSE /\ Len(session'.errors) = n + 1
                      /\ SubSeq(session'.errors, 1, n) = session.errors
                      /\ session'.errors[n + 1].error_type = "Substitution"
                      /\ session'.errors[n + 1].position = session.current_position
                      /\ session'.errors[n + 1].expected_char = Some(expected)
                      /\ session'.errors[n + 1].actual_char = Some(c)
                      /\ session'.has_error
                      /\ session'.consecutive_errors = session.consecutive_errors + 1
                      /\ session'.current_position = session.current_position ]_vars

\* C10 witness: a wrong key typed after a correct one, at position 1
C10_Witness ==
    /\ branch = "error"
    /\ session.current_position = 1
    /\ session.consecutive_errors = 1
    /\ Len(session.errors) = 1
    /\ session.errors[1].position = 1

\* C11: a backspace handled while has_error (not frozen) removes the last character
\* of user_input, decrements consecutive_errors by 1, clears has_error exactly when
\* consecutive_errors reaches 0, increments total_corrections by 1 and leaves
\* current_position and the error log unchanged.
C11_BackspaceInErrorState ==
    [][ (~session.is_frozen /\ session.has_error /\ keys' = Append(keys, Backspace))
        => /\ session.user_input # <<>>
           /\ session'.user_input =
                  SubSeq(session.user_input, 1, Len(session.user_input) - 1)
           /\ session'.consecutive_errors = session.consecutive_errors - 1
           /\ session'.has_error <=> (session'.consecutive_errors # 0)
           /\ session'.total_corrections = session.total_corrections + 1
           /\ session'.current_position = session.current_position
           /\ session'.errors = session.errors ]_vars

\* C11 witness: a backspace removed one of two buffered errors, the flag stays set
C11_Witness ==
    /\ branch = "backspace"
    /\ session.has_error
    /\ session.consecutive_errors = 1
    /\ session.total_corrections = 1
    /\ Len(session.errors) = 2

\* C12: a backspace with no pending error and current_position > 0 removes from
\* user_input the character equal to the target character at current_position - 1
\* and decrements current_position by 1, leaving has_error, consecutive_errors,
\* total_corrections and the error log unchanged; at current_position = 0 it
\* changes neither current_position nor any flag or counter.
C12_BackspaceUndoesCorrectChar ==
    [][ (~session.is_frozen /\ ~session.has_error /\ keys' = Append(keys, Backspace))
        => /\ session'.has_error = session.has_error
           /\ session'.consecutive_errors = session.consecutive_errors
           /\ session'.is_frozen = session.is_frozen
           /\ session'.total_corrections = session.total_corrections
           /\ session'.errors = session.errors
           /\ IF session.current_position > 0
              THEN /\ session.user_input # <<>>
                   /\ session.user_input[Len(session.user_input)] =
                          session.target_text[session.current_position]
                   /\ session'.user_input =
                          SubSeq(session.user_input, 1, Len(session.user_input) - 1)
                   /\ session'.current_position = session.current_position - 1
              ELSE session'.current_position = 0 ]_vars

C14_PastEndIsNoOp ==
    [][ \A c \in Chars :
          (~session.is_frozen /\ session.current_position = nchars
           /\ keys' = Append(keys, c))
          => /\ session'.current_position = session.current_position
             /\ session'.user_input = session.user_input
             /\ session'.has_error = session.has_error
             /\ session'.consecutive_errors = session.consecutive_errors
             /\ session'.errors = session.errors
             /\ calculate_accuracy(session') = calculate_accuracy(session) ]_vars

\* C15: every handle_key call sets last_keystroke to the time of the call.
C15_LastKeystrokeAlwaysUpdated ==
    [][ (\E k \in FreezeChars \cup {Backspace} : keys' = Append(keys, k))
        => session'.last_keystroke = Some(clock') ]_vars

\* C16: the latency recorded for a non-backspace keystroke, in the rhythm log and
\* in the key's stat, is the time since the immediately preceding handle_key call
\* (a backspace included), and zero for the first call of the session.
C16_LatencySincePreviousCall ==
    [][ \A c \in Chars :
          (~session.is_frozen /\ keys' = Append(keys, c))
          => LET latency == IF keys = <<>> THEN 0 ELSE clock' - clock
                 before == IF c \in DOMAIN session.key_stats
                           THEN session.key_stats[c].total_latency ELSE 0
                 stat == session'.key_stats[c]
                 n == Len(session'.typing_rhythm)
             IN  /\ n = Len(session.typing_rhythm) + 1
                 /\ session'.typing_rhythm[n].latency = latency
                 /\ stat.latencies[Len(stat.latencies)] = latency
                 /\ stat.total_latency = before + latency ]_vars

\* C16 witness: a character typed 600 ms after a backspace is logged with 600 ms
C16_Witness ==
    /\ Len(keys) >= 2
    /\ last_key # Backspace
    /\ keys[Len(keys) - 1] = Backspace
    /\ session.typing_rhythm # <<>>
    /\ session.typing_rhythm[Len(session.typing_rhythm)].latency = 600

\* accuracy a is at most / below accuracy b (fractions <<numerator, denominator>>)
AccLeq(a, b) == a[1] * b[2] <= b[1] * a[2]
AccLess(a, b) == a[1] * b[2] < b[1] * a[2]
\* the denominator calculate_accuracy divides by (0 when it does not divide)
AccuracyDenominator(s) == IF s.user_input = <<>> THEN 0 ELSE calculate_accuracy(s)[2]
non_backspace_keys == SelectSeq(keys, LAMBDA k : k # Backspace)

\* C17: calculate_accuracy() is exactly 100 when user_input is empty and otherwise
\* current_position / (number of characters of user_input) * 100; a further wrong
\* keystroke typed in error state never increases it, and strictly decreases it
\* when current_position > 0.
C17_AccuracyFormula ==
    [][ /\ LET a == calculate_accuracy(session')
           IN  IF session'.user_input = <<>> THEN a = <<100, 1>>
               ELSE a[1] * Len(session'.user_input) = session'.current_position * 100 * a[2]
        /\ \A c \in Chars :
             (session.has_error /\ session.current_position < nchars
              /\ c # session.target_text[session.current_position + 1]
              /\ keys' = Append(keys, c))
             => /\ AccLeq(calculate_accuracy(session'), calculate_accuracy(session))
                /\ session.current_position > 0
                   => AccLess(calculate_accuracy(session'), calculate_accuracy(session))
      ]_vars

\* C18: the denominator of calculate_accuracy() counts every non-backspace keystroke
\* ever issued, so once a wrong key has been typed accuracy stays strictly below
\* 100, also after the error is corrected.
C18_EveryKeystrokeCounts ==
    /\ session.user_input # <<>>
       => AccuracyDenominator(session) = StrLen(non_backspace_keys)
    /\ session.errors # <<>>
       => AccLess(calculate_accuracy(session), <<100, 1>>)

\* C18 as amended: the denominator is the length of the current user_input, so a
\* wrong key counts only while it is buffered: a backspace in error state lowers
\* the denominator by the removed character, and after an overtype correction the
\* denominator is the length of the first current_position target characters
\* (accuracy exactly 100 when these are one-byte characters).
C18_FixedErrorsDoNotCount ==
    [][ /\ (branch' = "overtype")
           => LET prefix == SubSeq(session'.target_text, 1, session'.current_position)
                  a == calculate_accuracy(session')
              IN  /\ a = <<session'.current_position * 100, StrLen(prefix)>>
                  /\ (\A i \in 1..Len(prefix) : Utf8Len(prefix[i]) = 1) => a[1] = 100 * a[2]
        /\ (branch' = "backspace" /\ session.has_error)
           => AccuracyDenominator(session') =
                  AccuracyDenominator(session)
                  - Utf8Len(session.user_input[Len(session.user_input)]) ]_vars

\* C18 witness: after a wrong key and its overtype correction accuracy is 100 again
C18_Witness ==
    /\ branch = "overtype"
    /\ session.errors # <<>>
    /\ calculate_accuracy(session)[1] = 100 * calculate_accuracy(session)[2]

\* C19: two generate_report calls on the same completed session, with no handle_key
\* call in between, return identical reports, the order of slowest_digraphs and
\* problematic_transitions included.
C19_ReportIsRepeatable ==
    (is_complete(session) /\ Len(reports) >= 2) => reports[1] = reports[2]

\* C20: generate_report measures session_duration (and the WPM derived from it) up
\* to the recorded completion moment exactly when the session is complete at the
\* time of the call, and up to 'now' when it is not.
C20_DurationEndsAtCompletion ==
    reports # <<>> =>
        LET rep == reports[Len(reports)]
            until == IF is_complete(session) /\ session.session_end # None
                     THEN session.session_end[1] ELSE clock
        IN  /\ is_complete(session) => session.session_end # None
            /\ rep.session_duration = until - session.session_start
            /\ rep.wpm = calculate_wpm_with_duration(session, until - session.session_start)

\* how often the session observed a digraph / a transition (counted on the rhythm log)
digraph_count(pair) ==
    Cardinality({i \in 1..Len(session.typing_rhythm) :
                    digraph_of(session, session.typing_rhythm[i]) = Some(pair)})
transition_count(pair) ==
    Cardinality({i \in 2..Len(session.typing_rhythm) :
                    <<session.typing_rhythm[i - 1].char_typed,
                      session.typing_rhythm[i].char_typed>> = pair})
descending(q) ==
    \A i \in 1..(Len(q) - 1) : q[i].sum * q[i + 1].n >= q[i + 1].sum * q[i].n

\* C21: in the WeaknessAnalysis of every report, slowest_digraphs and
\* problematic_transitions hold no pair observed fewer than 2 times, each list is
\* sorted in non-increasing order of average latency and has at most 10 entries,
\* and every problematic transition averages above 300 ms.
C21_WeaknessLists ==
    \A k \in 1..Len(reports) :
        LET wa == reports[k].weakness_analysis
            dg == wa.slowest_digraphs
            tr == wa.problematic_transitions
        IN  /\ \A i \in 1..Len(dg) :
                   digraph_count(dg[i].pair) >= 2 /\ dg[i].n = digraph_count(dg[i].pair)
            /\ \A i \in 1..Len(tr) :
                   /\ transition_count(tr[i].pair) >= 2
                   /\ tr[i].n = transition_count(tr[i].pair)
                   /\ tr[i].sum > 300 * tr[i].n
            /\ descending(dg) /\ descending(tr)
            /\ Len(dg) <= 10 /\ Len(tr) <= 10

\* C21 witness: a report that kept 10 of 11 repeated digraphs and 10 of 11 slow
\* repeated transitions, of a session that also saw pairs only once and a
\* repeated transition at 300 ms or less
C21_Witness ==
    /\ reports # <<>>
    /\ LET wa == reports[1].weakness_analysis
           seen == averaged(transition_latencies(session))
       IN  /\ Len(wa.slowest_digraphs) = 10
           /\ Cardinality(averaged(digraph_latencies(session))) = 11
           /\ Len(wa.problematic_transitions) = 10
           /\ Cardinality(slow_only(seen)) = 11
           /\ Cardinality(seen) = 11
           /\ Cardinality(DOMAIN transition_latencies(session)) > 11
           /\ wa.slowest_digraphs[1].sum * wa.slowest_digraphs[10].n
                  > wa.slowest_digraphs[10].sum * wa.slowest_digraphs[1].n

\* C22: no sequence of handle_key calls records an ErrorEvent of kind Repeat (nor
\* Insertion or Omission): every ErrorEvent in the error log has kind Substitution
\* and expected_char different from actual_char.
C22_OnlySubstitutions ==
    \A i \in 1..Len(session.errors) :
        /\ session.errors[i].error_type = "Substitution"
        /\ session.errors[i].expected_char # None
        /\ session.errors[i].actual_char # None
        /\ session.errors[i].expected_char # session.errors[i].actual_char

\* C22 witness: the same wrong character typed twice in a row at one position
C22_Witness ==
    /\ Len(session.errors) >= 2
    /\ session.errors[1].position = session.errors[2].position
    /\ session.errors[1].actual_char = session.errors[2].actual_char
    /\ session.errors[2].error_type = "Substitution"

\* C23: the target is measured in characters, not bytes: typing all the characters
\* of a target (multi-byte ones included) correctly in order makes is_complete()
\* true and records the completion time as soon as current_position equals the
\* number of characters.
C23_CompleteAtCharCount ==
    (keys # <<>> /\ keys = session.target_text)
        => /\ session.current_position = nchars
           /\ is_complete(session)
           /\ session.session_end = Some(clock)

\* all spans of a styled text, in display order
RECURSIVE spans_of(_)
spans_of(lines) == IF lines = <<>> THEN <<>> ELSE Head(lines) \o spans_of(Tail(lines))
\* the error-buffer segment of the styled text
error_segment(s) ==
    SelectSeq(spans_of(generate_styled_text(s)), LAMBDA sp : sp.style \in {"Red", "RedCursor"})

\* C24: whenever has_error is true, the error-buffer segment of generate_styled_text
\* shows exactly the characters mistyped since the last correct position (the
\* characters of user_input beyond current_position, in order), the last of them
\* marked as the cursor.
C24_ErrorBufferShown ==
    session.has_error =>
        LET seg == error_segment(session)
            mistyped == SubSeq(session.user_input, session.current_position + 1,
                               Len(session.user_input))
        IN  /\ mistyped # <<>>
            /\ [i \in 1..Len(seg) |-> seg[i].text] = mistyped
            /\ \A i \in 1..Len(seg) : seg[i].style = "RedCursor" <=> i = Len(seg)

\* q extends p: the entries of p are kept, unchanged and in place
Extends(q, p) == Len(q) >= Len(p) /\ SubSeq(q, 1, Len(p)) = p

\* C25: the rhythm log, the error log and the hesitation log are append-only: every
\* handle_key call leaves the existing entries unchanged and in place; a
\* non-backspace key handled while not frozen appends exactly one TypingRhythm
\* entry (position = current_position at entry, character = the typed key); a
\* backspace appends nothing to any log.
C25_LogsAppendOnly ==
    [][ /\ Extends(session'.typing_rhythm, session.typing_rhythm)
        /\ Extends(session'.errors, session.errors)
        /\ Extends(session'.hesitation_patterns, session.hesitation_patterns)
        /\ \A c \in Chars :
              (~session.is_frozen /\ keys' = Append(keys, c))
              => LET n == Len(session'.typing_rhythm)
                 IN  /\ n = Len(session.typing_rhythm) + 1
                     /\ session'.typing_rhythm[n].position = session.current_position
                     /\ session'.typing_rhythm[n].char_typed = c
        /\ keys' = Append(keys, Backspace)
              => /\ session'.typing_rhythm = session.typing_rhythm
                 /\ session'.errors = session.errors
                 /\ session'.hesitation_patterns = session.hesitation_patterns ]_vars

\* C25 witness: a backspace handled when all three logs have entries, the last
\* rhythm entry logged at position 1
C25_Witness ==
    /\ branch = "backspace"
    /\ session.errors # <<>>
    /\ session.hesitation_patterns # <<>>
    /\ session.typing_rhythm # <<>>
    /\ session.typing_rhythm[Len(session.typing_rhythm)].position = 1

\* C26: for every non-backspace keystroke handled while not frozen, the stat record
\* of the typed character gets count + 1, the latency added to its total and
\* appended to its latency list, and current_position (as at entry) appended to its
\* position list; its error_count is incremented if and only if has_error was true
\* at entry; no other character's record changes, and backspaces change no record.
C26_KeyStatUpdate ==
    [][ /\ \A c \in Chars :
              (~session.is_frozen /\ keys' = Append(keys, c))
              => LET latency == IF session.last_keystroke = None THEN 0
                                ELSE clock' - session.last_keystroke[1]
                     fresh == c \notin DOMAIN session.key_stats
                     old(f, zero) == IF fresh THEN zero ELSE session.key_stats[c][f]
                     stat == session'.key_stats[c]
                 IN  /\ DOMAIN session'.key_stats = DOMAIN session.key_stats \cup {c}
                     /\ stat.key = c
                     /\ stat.count = old("count", 0) + 1
                     /\ stat.total_latency = old("total_latency", 0) + latency
                     /\ stat.latencies = Append(old("latencies", <<>>), latency)
                     /\ stat.positions = Append(old("positions", <<>>), session.current_position)
                     /\ stat.error_count =
                            old("error_count", 0) + (IF session.has_error THEN 1 ELSE 0)
                     /\ \A d \in DOMAIN session.key_stats \ {c} :
                            session'.key_stats[d] = session.key_stats[d]
        /\ keys' = Append(keys, Backspace) => session'.key_stats = session.key_stats ]_vars

\* C26 witness: the wrong key that started the error state is not counted as an
\* error of its character, the overtyping key typed in error state is
C26_Witness ==
    /\ branch = "overtype"
    /\ Len(session.errors) = 1
    /\ session.key_stats[last_key].error_count = 1
    /\ \E d \in DOMAIN session.key_stats :
          /\ session.errors[1].actual_char = Some(d)
          /\ session.key_stats[d].error_count = 0

\* C27: a non-backspace keystroke appends a WPM sample if and only if
\* current_position, as it is at the stat update (before the keystroke advances
\* it), is a positive multiple of 10; backspaces and keystrokes at other positions
\* append no sample.
C27_WpmSampleEveryTenth ==
    [][ LET n == Len(session.wpm_samples)
            sampled == /\ Len(session'.wpm_samples) = n + 1
                       /\ SubSeq(session'.wpm_samples, 1, n) = session.wpm_samples
                       /\ session'.wpm_samples[n + 1][1] = clock'
        IN  /\ \A c \in WpmChars :
                  (~session.is_frozen /\ keys' = Append(keys, c))
                  => IF session.current_position % 10 = 0 /\ session.current_position > 0
                     THEN sampled
                     ELSE session'.wpm_samples = session.wpm_samples
            /\ keys' = Append(keys, Backspace)
                  => session'.wpm_samples = session.wpm_samples ]_vars

\* C27 witness: two samples, both taken at position 10: the first by the wrong key
\* typed there, the second by the key typed next in error state, none by the key
\* that advanced the position to 10
C27_Witness ==
    /\ Len(session.wpm_samples) = 2
    /\ session.current_position = 10
    /\ session.has_error
    /\ Len(session.typing_rhythm) = 12
    /\ session.typing_rhythm[10].position = 9
    /\ session.typing_rhythm[11].position = 10

\* the latency of the keystroke being handled, and the pattern it has just logged
step_latency == IF keys = <<>> THEN 0 ELSE clock' - clock
new_pattern == session'.hesitation_patterns[Len(session'.hesitation_patterns)]
\* the keystroke being handled is c, not frozen, and is a hesitation of 500-1000 ms
\* on a character that is neither punctuation nor a digit or symbol
PlainHesitation(c) ==
    /\ ~session.is_frozen
    /\ keys' = Append(keys, c)
    /\ step_latency > 500 /\ step_latency <= 1000
    /\ c \notin AsciiPunctuation \cup AsciiDigit \cup SymbolSet

\* C28: a HesitationPattern is recorded for a keystroke if and only if its latency
\* is strictly above 500 ms, exactly one per such keystroke, so the hesitation log
\* has as many entries as the rhythm log has entries with latency > 500 ms; a
\* latency above 1000 ms is classified LongPause whatever the character.
C28_HesitationThreshold ==
    [][ /\ Len(session'.hesitation_patterns) =
               Cardinality({i \in 1..Len(session'.typing_rhythm) :
                               session'.typing_rhythm[i].latency > 500})
        /\ \A c \in HesitationChars :
              (~session.is_frozen /\ keys' = Append(keys, c))
              => IF step_latency > 500
                 THEN /\ Len(session'.hesitation_patterns) =
                            Len(session.hesitation_patterns) + 1
                      /\ new_pattern.duration = step_latency
                      /\ new_pattern.position = session.current_position
                      /\ step_latency > 1000 => new_pattern.pattern_type = "LongPause"
                 ELSE session'.hesitation_patterns = session.hesitation_patterns
        /\ keys' = Append(keys, Backspace)
              => session'.hesitation_patterns = session.hesitation_patterns ]_vars

\* C28 witness: a key typed after exactly 500 ms logged no hesitation, a
\* punctuation character typed after 1100 ms logged a LongPause
C28_Witness ==
    /\ Len(session.typing_rhythm) = 3
    /\ session.typing_rhythm[2].latency = 500
    /\ session.typing_rhythm[3].latency = 1100
    /\ session.typing_rhythm[3].char_typed = "."
    /\ Len(session.hesitation_patterns) = 1
    /\ session.hesitation_patterns[1].pattern_type = "LongPause"

\* C29: for a hesitation of 500-1000 ms on a character that is neither punctuation
\* nor a digit/symbol and whose case does not trigger CaseChange, the type is
\* DoubleDigraph whenever (target character at current_position - 1, typed
\* character) is one of th, er, on, an, re, he, in, ed, nd, ha, at every position
\* current_position >= 1.
C29_DoubleDigraphFromPositionOne ==
    [][ \A c \in HesitationChars :
          (/\ PlainHesitation(c)
           /\ session.current_position >= 1
           /\ session.current_position <= nchars
           /\ <<session.target_text[session.current_position], c>> \in
                  { <<"t", "h">>, <<"e", "r">>, <<"o", "n">>, <<"a", "n">>, <<"r", "e">>,
                    <<"h", "e">>, <<"i", "n">>, <<"e", "d">>, <<"n", "d">>, <<"h", "a">> }
           /\ new_pattern.pattern_type # "CaseChange")
          => new_pattern.pattern_type = "DoubleDigraph" ]_vars

target_slice(lo, hi) ==
    LET from == IF lo < 0 THEN 0 ELSE lo
        to == IF hi > nchars - 1 THEN nchars - 1 ELSE hi
    IN  IF from > to THEN <<>> ELSE SubSeq(session.target_text, from + 1, to + 1)

\* C31: every recorded HesitationPattern carries the target characters immediately
\* before and after current_position, up to 3 each, clipped at the text boundaries:
\* preceding_chars is the min(3, current_position) target characters ending just
\* before current_position, following_chars the up-to-3 target characters after it.
C31_WindowsClipped ==
    \A i \in 1..Len(session.hesitation_patterns) :
        LET h == session.hesitation_patterns[i]
        IN  /\ h.preceding_chars = target_slice(h.position - 3, h.position - 1)
            /\ h.following_chars = target_slice(h.position + 1, h.position + 3)

\* the positions of the error log, and a sequence of numbers in ascending order
error_positions == [i \in 1..Len(session.errors) |-> session.errors[i].position]
RECURSIVE ascending(_)
ascending(q) ==
    IF q = <<>> THEN <<>>
    ELSE LET i == CHOOSE i \in 1..Len(q) : \A j \in 1..Len(q) : q[i] <= q[j]
         IN  <<q[i]>> \o ascending(SubSeq(q, 1, i - 1) \o SubSeq(q, i + 1, Len(q)))
\* the clusters of positions given in order: a position within 10 of the previous
\* one joins its cluster, a position further away starts a new one
RECURSIVE clusters_of(_, _)
clusters_of(q, out) ==
    IF q = <<>> THEN out
    ELSE IF out # <<>> /\ Head(q) <= out[Len(out)][2] + 10
    THEN clusters_of(Tail(q), [out EXCEPT ![Len(out)] = <<@[1], Head(q)>>])
    ELSE clusters_of(Tail(q), Append(out, <<Head(q), Head(q)>>))

\* C32: error clusters follow the stated rule for every error log a session can
\* produce: the errors are walked in position order, an error within 10 positions
\* of the previous one belongs to the same cluster, one more than 10 positions
\* away starts a new cluster, and each cluster is emitted as its (start, end) range.
C32_ClustersInPositionOrder ==
    error_clusters(session) = clusters_of(ascending(error_positions), <<>>)

\* C36: for every error log reachable by handle_key calls (backspacing over correct
\* characters and mistyping at an earlier position included), every emitted error
\* cluster (start, end) has start <= end, so the cluster size end - start + 1
\* computed by the report view never underflows.
C36_ClusterStartBeforeEnd ==
    \A i \in 1..Len(error_clusters(session)) :
        /\ error_clusters(session)[i][1] <= error_clusters(session)[i][2]
        /\ error_clusters(session)[i][2] - error_clusters(session)[i][1] + 1 >= 1

\* C33: for every index i >= 5 of the per-keystroke latency series, the position of
\* keystroke i is recorded as a rhythm break if and only if its latency exceeds
\* twice the mean of the 5 preceding latencies and also exceeds 400 ms; no position
\* is recorded for an index below 5.
C33_RhythmBreaks ==
    LET log == session.typing_rhythm
        sum5(i) == log[i - 5].latency + log[i - 4].latency + log[i - 3].latency
                   + log[i - 2].latency + log[i - 1].latency
        \* 1-based indices 6.. are the 0-based indices 5..
        is_break(i) == 5 * log[i].latency > 2 * sum5(i) /\ log[i].latency > 400
        expected == SelectSeq([i \in 1..Len(log) |-> i], LAMBDA i : i >= 6 /\ is_break(i))
    IN  rhythm_breaks(session) = [j \in 1..Len(expected) |-> log[expected[j]].position]

\* the finger labels <<expected, actual>> of an ErrorEvent
labels_of(ev) == <<finger_of(ev.expected_char[1]), finger_of(ev.actual_char[1])>>
\* the sum of all counters of a counter map
RECURSIVE counter_sum(_)
counter_sum(m) ==
    IF DOMAIN m = {} THEN 0
    ELSE LET k == CHOOSE k \in DOMAIN m : TRUE
         IN  m[k] + counter_sum([j \in DOMAIN m \ {k} |-> m[j]])

\* C34: with each character labelled by the fixed finger map and "Unknown" outside
\* it, every ErrorEvent whose expected and actual labels differ increments the
\* counter keyed by (expected finger, actual finger) by exactly 1 and every
\* ErrorEvent whose labels are equal increments none, so the counters sum to the
\* number of ErrorEvents with differing labels.
C34_FingerErrorCounters ==
    [][ LET before == finger_errors(session)
            after == finger_errors(session')
            n == Len(session.errors)
        IN  /\ IF Len(session'.errors) = n + 1
               THEN LET p == labels_of(session'.errors[n + 1])
                    IN  IF p[1] # p[2]
                        THEN after = [q \in DOMAIN before \cup {p} |->
                                       IF q = p
                                       THEN (IF p \in DOMAIN before THEN before[p] ELSE 0) + 1
                                       ELSE before[q]]
                        ELSE after = before
               ELSE after = before
            /\ counter_sum(after) =
                   Cardinality({i \in 1..Len(session'.errors) :
                                   labels_of(session'.errors[i])[1]
                                       # labels_of(session'.errors[i])[2]}) ]_vars

\* C34 witness: three errors at position 0, one between two characters outside the
\* finger map (not counted) and two from an unmapped to a mapped character
C34_Witness ==
    /\ Len(session.errors) = 3
    /\ labels_of(session.errors[1]) = <<"Unknown", "Unknown">>
    /\ DOMAIN finger_errors(session) = { <<"Unknown", "L-Middle">> }
    /\ finger_errors(session)[<<"Unknown", "L-Middle">>] = 2

\* C35: in every reachable state user_input consists of exactly the first
\* current_position characters of the target followed by exactly
\* consecutive_errors further characters; in particular, whenever has_error is
\* false, user_input equals the first current_position characters of the target.
C35_InputIsPrefixPlusErrors ==
    /\ session.current_position <= nchars
    /\ Len(session.user_input) = session.current_position + session.consecutive_errors
    /\ SubSeq(session.user_input, 1, session.current_position)
           = SubSeq(session.target_text, 1, session.current_position)
    /\ ~session.has_error
           => session.user_input = SubSeq(session.target_text, 1, session.current_position)

\* C37: in every reachable state consecutive_errors is at most 10, and is_frozen is
\* true if and only if consecutive_errors equals 10; consequently the count shown
\* by get_status in the error-buffer status is always between 1 and 9.
C37_FrozenIffTenErrors ==
    /\ session.consecutive_errors <= 10
    /\ session.is_frozen <=> (session.consecutive_errors = 10)
    /\ get_status(session).kind = "ErrorBuffer"
           => get_status(session).count \in 1..9

\* C37 witness: nine wrong characters are buffered and the status shows 9
C37_Witness ==
    /\ branch = "error"
    /\ ~session.is_frozen
    /\ get_status(session) = [kind |-> "ErrorBuffer", count |-> 9]

\* C40: in every reachable state total_corrections never exceeds the number of
\* ErrorEvents recorded so far, and total_corrections never decreases; a backspace
\* handled with no pending error leaves total_corrections unchanged.
C40_CorrectionsBoundedByErrors ==
    [][ /\ session'.total_corrections <= Len(session'.errors)
        /\ session'.total_corrections >= session.total_corrections
        /\ (~session.has_error /\ keys' = Append(keys, Backspace))
              => session'.total_corrections = session.total_corrections ]_vars

\* C40 witness: every recorded error was removed by a backspace, and a further
\* backspace with no error pending added no correction
C40_Witness ==
    /\ branch = "backspace"
    /\ Len(keys) >= 2
    /\ keys[Len(keys) - 1] = Backspace
    /\ session.total_corrections = 2
    /\ Len(session.errors) = 2
    /\ ~session.has_error

\* C38: for every target text the App can load, texts with tab or newline
\* characters included, there is a sequence of key events (Char, Enter, Tab,
\* Backspace) that App.handle_event turns into a completed session, moving the App
\* from Typing to ShowingReport; a tab in the target can be typed with the Tab key:
\* pressed when the tab is the expected character and no error is pending, it
\* advances the position past the tab without an error.
C38_TabKeyTypesTab ==
    [][ (/\ event' = "Tab"
         /\ app.state = "Typing"
         /\ ~session.is_frozen /\ ~session.has_error
         /\ chars_nth(session.target_text, session.current_position) = Some("\t"))
        => /\ session'.current_position = session.current_position + 1
           /\ ~session'.has_error
           /\ session'.errors = session.errors ]_vars

\* C39: whenever the App is in the Typing state its session is not complete, so
\* App.handle_event never delivers a key to a session for which is_complete() is
\* already true; this holds for every target text, the empty text included.
C39_TypingMeansIncomplete ==
    app.state = "Typing" => ~is_complete(session)

====
